---------------------------- MODULE Spec2Model ----------------------------
(***************************************************************************)
(* Blog content layer of the site: the two API routes in front of the      *)
(* headless CMS (app/api/blog/route.js, app/api/blog/[slug]/route.js) and  *)
(* the fetch wrappers used by the pages (fetch-ssr/blog-post).             *)
(*                                                                         *)
(* The CMS is the environment: its collections are state, each SDK call    *)
(* (directus.request) is one step that either answers or throws.  Every    *)
(* await of a handler is a scheduling point, so concurrent detail requests *)
(* interleave between the read of a post and the write of its views.       *)
(***************************************************************************)
EXTENDS Integers, Sequences, FiniteSets, Bags, TLC

\* ------------------------------------------------------------------ bounds
\* Posts held by the CMS.
NumPosts == 3
\* Detail requests that arrive in one behaviour (all may be in flight at once).
MaxReq == 3
\* Largest page and limit query parameter of a list request.
MaxPage == 2
MaxLimit == 2

\* --------------------------------------------------------------- constants
\* A views field that is null in the CMS (no number stored yet).
NullViews == -1
Locales == {"en-US", "id-ID"}
PostIds == 1 .. NumPosts

\* The value the handler sees when a query parameter is absent: lang defaults
\* to en-US (its locale is always one of Locales here).
DefaultLocale == "en-US"

VARIABLES
    env,          \* process.env: which settings are present, and NODE_ENV
    blog_posts,   \* CMS collection blog_posts: id -> item (views is mutable)
    reqs,         \* bag of the detail requests that have arrived (in flight or answered)
    list,         \* the list request being served
    site          \* the static blog page: compiled posts and the posts it shows

vars == <<env, blog_posts, reqs, list, site>>

\* The static blog page before it is rendered, with no compiled post.
NoSite == [pc |-> "start", blogs |-> <<>>, posts |-> <<>>]

\* ------------------------------------------------------- CMS lookup tables
\* Junction and lookup collections, as arrays in the order the CMS returns them.
\* Link identifiers are not tag identifiers: link 1 points at tag 2 and link 2
\* at tag 1.  Link 3 points at a tag that is not in tags.
blog_posts_tags ==
    << [id |-> 1, tags_id |-> 2], [id |-> 2, tags_id |-> 1], [id |-> 3, tags_id |-> 7] >>

tags ==
    << [id |-> 1, name |-> "react"], [id |-> 2, name |-> "typescript"] >>

blog_posts_files ==
    << [id |-> 1, directus_files_id |-> "file-a"], [id |-> 2, directus_files_id |-> "file-b"] >>

\* ----------------------------------------------------------------- helpers
\* Array.prototype.find, given the indexes of the elements that satisfy the
\* callback: the first of them as <<e>>, or <<>> for undefined.
find(arr, hits) ==
    IF hits = {} THEN <<>>
    ELSE << arr[CHOOSE i \in hits : \A j \in hits : i <= j] >>

\* arr.find(t => t.id === id)
findById(arr, id) == find(arr, {i \in 1 .. Len(arr) : arr[i].id = id})

Range(arr) == {arr[i] : i \in 1 .. Len(arr)}

\* `x || 0` on a views value.
OrZero(v) == IF v = NullViews THEN 0 ELSE v

\* String.prototype.trim on a slug held as a sequence of tokens, " " being
\* white space.
RECURSIVE TrimLeft(_)
TrimLeft(s) ==
    IF s # <<>> /\ Head(s) = " " THEN TrimLeft(Tail(s)) ELSE s

RECURSIVE TrimRight(_)
TrimRight(s) ==
    IF s # <<>> /\ s[Len(s)] = " " THEN TrimRight(SubSeq(s, 1, Len(s) - 1)) ELSE s

trim(s) == TrimRight(TrimLeft(s))



\* A computation that may throw: [ok |-> TRUE, val |-> v] or a thrown TypeError.
Ok(v) == [ok |-> TRUE, val |-> v]
Thrown == [ok |-> FALSE, val |-> <<>>]

\* --------------------------------------------------- relation resolution
\* post.tags?.map(tag => blog_posts_tags?.find(t => t.id === tag).tags_id):
\* reading .tags_id of undefined throws.
postTagsId(post) ==
    LET links == [i \in 1 .. Len(post.tags) |->
                    findById(blog_posts_tags, post.tags[i])]
    IN  IF \E i \in 1 .. Len(links) : links[i] = <<>> THEN Thrown
        ELSE Ok([i \in 1 .. Len(links) |-> links[i][1].tags_id])

\* Mutant of tagsName: the identifiers of the post are taken for tag
\* identifiers, without the link table.
tagsNameDirect(post) ==
    LET found == [i \in 1 .. Len(post.tags) |-> findById(tags, post.tags[i])]
    IN  IF \E i \in 1 .. Len(found) : found[i] = <<>> THEN Thrown
        ELSE Ok([i \in 1 .. Len(found) |-> found[i][1].name])

\* Mutant of tagsName: a tag that is not found is skipped instead of
\* dereferenced.
tagsNameLenient(post) ==
    LET ids == postTagsId(post)
    IN  IF ~ids.ok THEN Thrown
        ELSE LET found == SelectSeq(ids.val, LAMBDA tag : findById(tags, tag) # <<>>)
             IN  Ok([i \in 1 .. Len(found) |-> findById(tags, found[i])[1].name])

\* postTagsId?.map(tag => tags?.find(t => t.id === tag).name)
tagsName(post) ==
    LET ids == postTagsId(post)
    IN  IF ~ids.ok THEN Thrown
        ELSE LET found == [i \in 1 .. Len(ids.val) |->
                             findById(tags, ids.val[i])]
             IN  IF \E i \in 1 .. Len(found) : found[i] = <<>> THEN Thrown
                 ELSE Ok([i \in 1 .. Len(found) |-> found[i][1].name])

\* post.images.map(img => blog_posts_files?.find(f => f.id === img).directus_files_id)
postFilesId(post) ==
    LET found == [i \in 1 .. Len(post.images) |->
                    findById(blog_posts_files, post.images[i])]
    IN  IF \E i \in 1 .. Len(found) : found[i] = <<>> THEN Thrown
        ELSE Ok([i \in 1 .. Len(found) |-> found[i][1].directus_files_id])

\* postFilesId.map(id => `${process.env.DIRECTUS_URL}/assets/${id}`)
imagesUrl(post) ==
    LET ids == postFilesId(post)
    IN  IF ~ids.ok THEN Thrown
        ELSE Ok([i \in 1 .. Len(ids.val) |-> <<"DIRECTUS_URL", "/assets/", ids.val[i]>>])



\* ------------------------------------------------------------ CMS content
\* Slugs are sequences of tokens, " " being white space, so that trim is
\* more than the identity.  Text fields that the handlers only copy through
\* (title, summary, content, dates other than date_published) are left out.
Translation(slug, code) == [slug |-> slug, languages_code |-> code]

Item(id, status, date, views, tagIds, imageIds, trs) ==
    [id |-> id, status |-> status, date_published |-> date, views |-> views,
     tags |-> tagIds, images |-> imageIds, translations |-> trs]

\* The content the detail endpoint is exercised on: post 1 is published in both
\* locales and has no views value yet; post 2 is published in id-ID only, has
\* 5 views and carries a tag link that does not resolve; every further post is
\* a draft.
ExtraSlug == <<"draft", "extra", "more", "other">>

DetailPosts ==
    [id \in PostIds |->
        IF id = 1 THEN
            Item(1, "published", 3, NullViews, <<1, 2>>, <<1>>,
                 << Translation(<<"hello">>, "en-US"), Translation(<<"halo">>, "id-ID") >>)
        ELSE IF id = 2 THEN
            Item(2, "published", 2, 5, <<3>>, <<>>,
                 << Translation(<<"dua">>, "id-ID") >>)
        ELSE
            Item(id, "draft", 1, 0, <<>>, <<>>,
                 << Translation(<<ExtraSlug[id - 2]>>, "en-US") >>)]

\* Collection blog_posts_translations: one row per translation of each post.
RECURSIVE TranslationRows(_, _)
TranslationRows(db, id) ==
    IF id > NumPosts THEN <<>>
    ELSE [i \in 1 .. Len(db[id].translations) |->
             [blog_posts_id |-> id,
              slug |-> db[id].translations[i].slug,
              languages_code |-> db[id].translations[i].languages_code]]
         \o TranslationRows(db, id + 1)

blog_posts_translations(db) == TranslationRows(db, 1)

\* Mutant of readTranslations: the languages_code condition of the filter is lost.
readTranslationsAnyLocale(db, slug, locale) ==
    LET hits == SelectSeq(blog_posts_translations(db), LAMBDA t : t.slug = slug)
    IN  IF hits = <<>> THEN <<>> ELSE << hits[1] >>

\* readItems('blog_posts_translations', {filter: {slug: {_eq}, languages_code: {_eq}}, limit: 1})
readTranslations(db, slug, locale) ==
    LET hits == SelectSeq(blog_posts_translations(db),
                          LAMBDA t : t.slug = slug /\ t.languages_code = locale)
    IN  IF hits = <<>> THEN <<>> ELSE << hits[1] >>

\* readItem('blog_posts', postId, {filter: {status: {_eq: 'published'}}}): the
\* item when it passes the filter, <<>> when the CMS has no such item.
readPost(db, postId) ==
    IF postId \in DOMAIN db /\ db[postId].status = "published"
    THEN << db[postId] >> ELSE <<>>

\* updateItem('blog_posts', postId, {views: n})
updateViews(db, postId, n) == [db EXCEPT ![postId].views = n]

\* How an upstream call ends.  A CMS that rejects the deployment's credentials
\* rejects every call ("auth": the SDK throws an error whose errors[0].message
\* is 'Invalid user credentials.'); otherwise a call answers ("ok") or fails
\* for another reason ("error").
CallOutcomes(e) == IF e.credentials = "rejected" THEN {"auth"} ELSE {"ok", "error"}

\* ------------------------------------------------- detail endpoint (GET)
\* A detail request: its handler position and locals, the update calls it has
\* issued and whether the CMS applied one, the call or step whose throw reached
\* the catch block, the response once it is answered, and what getBlogPost
\* returned.
NewRequest(slug, locale) ==
    [pc |-> "translations", slug |-> slug, locale |-> locale,
     post |-> <<>>, updates |-> <<>>, updOk |-> FALSE, thrown |-> "",
     resp |-> <<>>, ret |-> <<>>]

\* NextResponse.json(body, {status}): the body is JSON.
Response(status, error, data) ==
    [status |-> status, json |-> TRUE, error |-> error, data |-> data]

PostNotFound == Response(404, "Post not found", <<>>)
TranslationNotFound == Response(404, "Translation not found", <<>>)
FetchPostFailed == Response(500, "Failed to fetch blog post", <<>>)

\* response.ok
responseOk(response) == response.status >= 200 /\ response.status <= 299

\* Mutant of getBlogPost: without the try block, the rejection of fetch or of
\* response.json() reaches the caller.
getBlogPostUncaught(fetched) ==
    IF fetched = <<>> THEN [threw |-> TRUE, val |-> <<>>]
    ELSE IF ~responseOk(fetched[1]) THEN [threw |-> FALSE, val |-> <<>>]
    ELSE IF ~fetched[1].json THEN [threw |-> TRUE, val |-> <<>>]
    ELSE [threw |-> FALSE, val |-> fetched[1].data]

\* getBlogPost: null when fetch throws, when the status is not 2xx, when the
\* body is not JSON (response.json() throws into the catch block) or when the
\* body has no data; the data otherwise.  The result is <<>> for null.
\* `fetched` is <<>> when fetch itself threw, <<response>> otherwise.
getBlogPost(fetched) ==
    IF fetched = <<>> THEN [threw |-> FALSE, val |-> <<>>]
    ELSE IF ~responseOk(fetched[1]) THEN [threw |-> FALSE, val |-> <<>>]
    ELSE IF ~fetched[1].json THEN [threw |-> FALSE, val |-> <<>>]
    ELSE [threw |-> FALSE, val |-> fetched[1].data]

\* getBlogPosts: the empty list in the same cases, data.data || [] otherwise.
\* The data of a list body is <<>> when absent and <<posts>> when present.
getBlogPosts(fetched) ==
    IF fetched = <<>> THEN [threw |-> FALSE, val |-> <<>>]
    ELSE IF ~responseOk(fetched[1]) THEN [threw |-> FALSE, val |-> <<>>]
    ELSE IF ~fetched[1].json THEN [threw |-> FALSE, val |-> <<>>]
    ELSE [threw |-> FALSE,
          val |-> IF fetched[1].data = <<>> THEN <<>> ELSE fetched[1].data[1]]

\* The handler returns `resp`: the request is answered and the wrapper returns.
Answer(r, resp) ==
    [r EXCEPT !.pc = "done", !.resp = <<resp>>, !.ret = <<getBlogPost(<<resp>>)>>]

\* catch (error): every throw inside the handler's try block ends here.
CatchDetail(r, what) == [Answer(r, FetchPostFailed) EXCEPT !.thrown = what]

\* Mutant of AfterTranslations: the length check is lost, so translations[0]
\* of an empty result throws.
AfterTranslationsUnchecked(r, db, outcome) ==
    IF outcome # "ok" THEN CatchDetail(r, "blog_posts_translations")
    ELSE LET translations == readTranslations(db, r.slug, r.locale)
         IN  IF translations = <<>> THEN CatchDetail(r, "TypeError")
             ELSE [r EXCEPT !.pc = "post",
                            !.post = << [id |-> translations[1].blog_posts_id] >>]

\* Lines 14-32: the translation lookup by slug and locale.
AfterTranslations(r, db, outcome) ==
    IF outcome # "ok" THEN CatchDetail(r, "blog_posts_translations")
    ELSE LET translations == readTranslations(db, r.slug, r.locale)
         IN  IF translations = <<>> THEN Answer(r, PostNotFound)
             ELSE [r EXCEPT !.pc = "post",
                            !.post = << [id |-> translations[1].blog_posts_id] >>]

\* post.translations?.find(t => t.languages_code === locale)
translationOf(post, locale) ==
    find(post.translations,
         {i \in 1 .. Len(post.translations) : post.translations[i].languages_code = locale})

\* Mutant of AfterPost: a post without the requested translation is answered
\* with the body of a post that was not found.
AfterPostOneBody(r, db, outcome, missing) ==
    IF outcome # "ok" THEN CatchDetail(r, "blog_posts")
    ELSE LET post == readPost(db, r.post[1].id)
         IN  IF post = <<>>
             THEN IF missing = "throws" THEN CatchDetail(r, "blog_posts")
                  ELSE Answer(r, PostNotFound)
             ELSE IF translationOf(post[1], r.locale) = <<>>
                  THEN Answer(r, PostNotFound)
                  ELSE [r EXCEPT !.pc = "views", !.post = post]

\* Lines 35-80: the read of the post and the choice of its translation.  When
\* the CMS has no published item under the id, it either throws or answers
\* with nothing (`missing`).
AfterPost(r, db, outcome, missing) ==
    IF outcome # "ok" THEN CatchDetail(r, "blog_posts")
    ELSE LET post == readPost(db, r.post[1].id)
         IN  IF post = <<>>
             THEN IF missing = "throws" THEN CatchDetail(r, "blog_posts")
                  ELSE Answer(r, PostNotFound)
             ELSE IF translationOf(post[1], r.locale) = <<>>
                  THEN Answer(r, TranslationNotFound)
                  ELSE [r EXCEPT !.pc = "views", !.post = post]

\* Line 86: the value written to views.
incrementedViews(post) == OrZero(post.views) + 1



\* Lines 83-91: the views update.  A failed call is caught and logged.
AfterViews(r, outcome) ==
    [r EXCEPT !.pc = "blog_posts_tags",
              !.updates = Append(@, [id |-> r.post[1].id,
                                     views |-> incrementedViews(r.post[1])]),
              !.updOk = (outcome = "ok")]

\* Lines 93-103: the reads of blog_posts_tags and of tags.
AfterLookup(r, outcome) ==
    IF outcome # "ok" THEN CatchDetail(r, r.pc)
    ELSE [r EXCEPT !.pc = IF r.pc = "blog_posts_tags" THEN "tags" ELSE "blog_posts_files"]

\* Mutant of responseViews: the response carries the value that was read.
responseViewsStale(post) == OrZero(post.views)

\* Line 133: the views value of the response.
responseViews(post) == OrZero(post.views) + 1

\* Lines 111-135: the response data, or the TypeError of a reference that
\* does not resolve.
transformedPost(post, locale) ==
    LET translation == translationOf(post, locale)[1]
        names == tagsName(post)
        urls == imagesUrl(post)
    IN  IF ~names.ok \/ ~urls.ok THEN Thrown
        ELSE Ok([id |-> post.id, status |-> post.status,
                 date_published |-> post.date_published,
                 slug |-> translation.slug,
                 tags |-> names.val,
                 images |-> urls.val,
                 language |-> translation.languages_code,
                 availableLanguages |->
                     [i \in 1 .. Len(post.translations) |->
                         [code |-> post.translations[i].languages_code,
                          slug |-> post.translations[i].slug]],
                 views |-> responseViews(post)])

\* Lines 105-143: the read of blog_posts_files, then the response.
AfterFiles(r, outcome) ==
    IF outcome # "ok" THEN CatchDetail(r, "blog_posts_files")
    ELSE LET t == transformedPost(r.post[1], r.locale)
         IN  IF ~t.ok THEN CatchDetail(r, "TypeError")
             ELSE Answer(r, Response(200, "", <<t.val>>))

\* What a client asks for, one request of each kind: a post in a locale it
\* has; a post whose tag link does not resolve; the same post in a locale it
\* has no variant in; a draft; a slug that is stored nowhere.
DetailInputs ==
    { [slug |-> <<"hello">>, locale |-> "en-US"],
      [slug |-> <<"dua">>, locale |-> "id-ID"],
      [slug |-> <<"dua">>, locale |-> "en-US"],
      [slug |-> <<"draft">>, locale |-> "en-US"],
      [slug |-> <<"none">>, locale |-> DefaultLocale] }

Replace(r, r2) == (reqs (-) SetToBag({r})) (+) SetToBag({r2})

\* A page calls getBlogPost({locale, slug}); the fetch reaches the route.
DetailArrives ==
    /\ BagCardinality(reqs) < MaxReq
    /\ \E in \in DetailInputs :
          reqs' = reqs (+) SetToBag({NewRequest(in.slug, in.locale)})
    /\ UNCHANGED <<env, site, blog_posts, list>>

\* The fetch of getBlogPost throws before any response (network error).
DetailFetchThrows ==
    /\ BagCardinality(reqs) < MaxReq
    /\ \E in \in DetailInputs :
          reqs' = reqs (+) SetToBag({[NewRequest(in.slug, in.locale) EXCEPT
                                         !.pc = "done",
                                         !.ret = <<getBlogPost(<<>>)>>]})
    /\ UNCHANGED <<env, site, blog_posts, list>>

ReadTranslations(r) ==
    /\ r.pc = "translations"
    /\ \E outcome \in CallOutcomes(env) :
          reqs' = Replace(r, AfterTranslations(r, blog_posts, outcome))
    /\ UNCHANGED <<env, site, blog_posts, list>>

ReadPost(r) ==
    /\ r.pc = "post"
    /\ \E outcome \in CallOutcomes(env), missing \in {"throws", "null"} :
          reqs' = Replace(r, AfterPost(r, blog_posts, outcome, missing))
    /\ UNCHANGED <<env, site, blog_posts, list>>

UpdateViews(r) ==
    /\ r.pc = "views"
    /\ \E outcome \in CallOutcomes(env) :
          /\ reqs' = Replace(r, AfterViews(r, outcome))
          /\ blog_posts' = IF outcome = "ok"
                           THEN updateViews(blog_posts, r.post[1].id,
                                            incrementedViews(r.post[1]))
                           ELSE blog_posts
    /\ UNCHANGED <<env, site, list>>

ReadLookup(r) ==
    /\ r.pc \in {"blog_posts_tags", "tags"}
    /\ \E outcome \in CallOutcomes(env) :
          reqs' = Replace(r, AfterLookup(r, outcome))
    /\ UNCHANGED <<env, site, blog_posts, list>>

ReadFiles(r) ==
    /\ r.pc = "blog_posts_files"
    /\ \E outcome \in CallOutcomes(env) :
          reqs' = Replace(r, AfterFiles(r, outcome))
    /\ UNCHANGED <<env, site, blog_posts, list>>

\* No list request has arrived yet.  `ret` is what getBlogPosts returned.
IdleList ==
    [pc |-> "idle", locale |-> DefaultLocale, page |-> 0, limit |-> 0,
     posts |-> <<>>, calls |-> <<>>, thrown |-> "", resp |-> <<>>, ret |-> <<>>]

\* A deployment with both CMS settings present, whose credentials the CMS
\* accepts.
Configured(nodeEnv) ==
    [DIRECTUS_URL |-> TRUE, DIRECTUS_TOKEN |-> TRUE, NODE_ENV |-> nodeEnv,
     credentials |-> "accepted"]

\* The same deployment facing a CMS that rejects its credentials.
Rejected(nodeEnv) == [Configured(nodeEnv) EXCEPT !.credentials = "rejected"]

Init ==
    /\ env \in {Configured("production"), Rejected("production")}
    /\ blog_posts = DetailPosts
    /\ reqs = EmptyBag
    /\ list = IdleList
    /\ site = NoSite

Next ==
    \/ DetailArrives
    \/ DetailFetchThrows
    \/ \E r \in BagToSet(reqs) : ReadTranslations(r)
    \/ \E r \in BagToSet(reqs) : ReadPost(r)
    \/ \E r \in BagToSet(reqs) : UpdateViews(r)
    \/ \E r \in BagToSet(reqs) : ReadLookup(r)
    \/ \E r \in BagToSet(reqs) : ReadFiles(r)

Spec == Init /\ [][Next]_vars


\* ------------------------------- detail endpoint while the content is edited
\* One detail request at a time.
DetailArrivesAlone ==
    /\ reqs = EmptyBag
    /\ \E in \in DetailInputs :
          reqs' = SetToBag({NewRequest(in.slug, in.locale)})
    /\ UNCHANGED <<env, site, blog_posts, list>>

\* The sequence without its i-th element.
RemoveAt(seq, i) == SubSeq(seq, 1, i - 1) \o SubSeq(seq, i + 1, Len(seq))

\* An editor of the CMS deletes a translation of a post.  The handler reads
\* the translations twice (lines 14-23 and 35-64) with awaits in between, so
\* the deletion can fall between the two reads.
EditorRemovesTranslation ==
    /\ \E p \in PostIds :
          \E i \in 1 .. Len(blog_posts[p].translations) :
              blog_posts' = [blog_posts EXCEPT ![p].translations = RemoveAt(@, i)]
    /\ UNCHANGED <<env, site, reqs, list>>

\* The detail endpoint serving one request at a time.
NextAlone ==
    \/ DetailArrivesAlone
    \/ \E r \in BagToSet(reqs) : ReadTranslations(r)
    \/ \E r \in BagToSet(reqs) : ReadPost(r)
    \/ \E r \in BagToSet(reqs) : UpdateViews(r)
    \/ \E r \in BagToSet(reqs) : ReadLookup(r)
    \/ \E r \in BagToSet(reqs) : ReadFiles(r)

NextEdited ==
    \/ NextAlone
    \/ EditorRemovesTranslation

SpecEdited == Init /\ [][NextEdited]_vars


\* ------------------------------------------------ detail endpoint: properties
Reqs == BagToSet(reqs)

\* A request the route has answered.
Answered(r) == r.pc = "done" /\ r.resp # <<>>

Succeeded(r) == Answered(r) /\ r.resp[1].status = 200

\* No translation of any post carries the slug.
NoEntry(slug) ==
    \A t \in Range(blog_posts_translations(blog_posts)) : t.slug # slug

\* Some post has a translation with the slug, and no post that has one has a
\* translation in the locale.
EntryWithoutLocale(slug, locale) ==
    /\ ~NoEntry(slug)
    /\ \A p \in PostIds :
          (\E t \in Range(blog_posts[p].translations) : t.slug = slug)
              => (\A t \in Range(blog_posts[p].translations) : t.languages_code # locale)

\* C1: the stored views counter of a post never takes a value lower than one
\* it held earlier, in any interleaving of concurrent detail requests.
ViewsNeverDecrease ==
    [][\A p \in PostIds :
          OrZero(blog_posts'[p].views) >= OrZero(blog_posts[p].views)]_vars

\* C2: once n detail requests on the same post have all completed
\* successfully, each with a successful increment call, the stored views of the
\* post is its initial value plus n.
EveryReadCounts ==
    \A p \in PostIds :
        (/\ reqs # EmptyBag
         /\ \A r \in Reqs : Succeeded(r) /\ r.updOk /\ r.post[1].id = p)
            => OrZero(blog_posts[p].views)
                   = OrZero(DetailPosts[p].views) + BagCardinality(reqs)

\* C4 (as stated): a detail fetch for a slug that matches no entry is answered
\* with 404, returns null from getBlogPost without throwing, and writes no
\* views counter.
NoEntryIs404 ==
    \A r \in Reqs :
        (Answered(r) /\ NoEntry(r.slug))
            => /\ r.resp[1].status = 404
               /\ r.ret[1] = [threw |-> FALSE, val |-> <<>>]
               /\ r.updates = <<>>

\* C4 (amended): for a slug that matches no entry the route answers 404 "Post
\* not found", or the generic 500 when (and only when) the translation lookup
\* call itself throws; getBlogPost returns null without throwing, also when
\* its fetch throws; no views update is issued.
NoEntryIsNotFound ==
    \A r \in Reqs :
        (r.pc = "done" /\ NoEntry(r.slug))
            => /\ r.ret[1] = [threw |-> FALSE, val |-> <<>>]
               /\ r.updates = <<>>
               /\ ~r.updOk
               /\ r.thrown \in {"", "blog_posts_translations"}
               /\ r.resp # <<>> =>
                     r.resp[1] = IF r.thrown = "" THEN PostNotFound ELSE FetchPostFailed

NoEntryWitness ==
    \E r \in Reqs :
        /\ Answered(r) /\ NoEntry(r.slug)
        /\ r.resp[1] = PostNotFound
        /\ r.ret[1].val = <<>>

\* C5: a successful detail fetch of a post read with views v issues exactly one
\* update, of that post, with views v + 1, and its response carries views
\* v + 1; a missing views value counts as 0.  The stored views of a post is
\* its initial value or the value of an update the CMS applied.
SuccessIncrements ==
    /\ \A r \in Reqs :
          Succeeded(r) =>
              /\ r.updates = << [id |-> r.post[1].id, views |-> OrZero(r.post[1].views) + 1] >>
              /\ r.resp[1].data[1].id = r.post[1].id
              /\ r.resp[1].data[1].views = OrZero(r.post[1].views) + 1
              /\ r.ret[1].val = r.resp[1].data
    /\ \A p \in PostIds :
          \/ blog_posts[p].views = DetailPosts[p].views
          \/ \E r \in Reqs :
                /\ r.updOk
                /\ r.updates = << [id |-> p, views |-> blog_posts[p].views] >>
                /\ blog_posts[p].views = OrZero(r.post[1].views) + 1

\* Two successful fetches, one that read a missing views value and one that
\* read the 1 the first had stored.
SuccessIncrementsWitness ==
    \E r1, r2 \in Reqs :
        /\ Succeeded(r1) /\ r1.updOk
        /\ r1.post[1].views = NullViews /\ r1.resp[1].data[1].views = 1
        /\ Succeeded(r2) /\ r2.updOk
        /\ r2.post[1].views = 1 /\ r2.resp[1].data[1].views = 2
        /\ blog_posts[1].views = 2

\* C6: when the increment call fails, the fetch still succeeds and the
\* response carries the value that was read, not that value plus one.
FailedIncrementKeepsViews ==
    \A r \in Reqs :
        (r.pc = "done" /\ r.updates # <<>> /\ ~r.updOk /\ r.thrown = "")
            => /\ Succeeded(r)
               /\ r.resp[1].data[1].views = OrZero(r.post[1].views)

\* C7: a detail request that ends in an error response (404 or 500) has left
\* every stored views counter as it was: no update of it was applied.
ErrorsLeaveViews ==
    \A r \in Reqs :
        (Answered(r) /\ r.resp[1].status # 200) => ~r.updOk

\* C8 (as stated): when the entry the slug identifies has no variant in the
\* requested locale, the detail fetch returns the entry's first variant.
FallsBackToFirstVariant ==
    \A r \in Reqs :
        (Answered(r) /\ EntryWithoutLocale(r.slug, r.locale) /\ r.thrown = "")
            => /\ r.resp[1].status = 200
               /\ \E p \in PostIds :
                     /\ r.resp[1].data[1].id = p
                     /\ r.resp[1].data[1].language
                            = blog_posts[p].translations[1].languages_code

\* C8 (amended): when the entry the slug identifies has no variant in the
\* requested locale, the detail fetch does not fall back: the route answers
\* 404 "Post not found" (the generic 500 when the lookup call throws),
\* getBlogPost returns null and no views update is issued.
NoVariantIsNotFound ==
    \A r \in Reqs :
        (Answered(r) /\ EntryWithoutLocale(r.slug, r.locale))
            => /\ r.thrown \in {"", "blog_posts_translations"}
               /\ r.resp[1] = IF r.thrown = "" THEN PostNotFound ELSE FetchPostFailed
               /\ r.ret[1].val = <<>>
               /\ r.updates = <<>>

NoVariantWitness ==
    \E r \in Reqs :
        /\ Answered(r) /\ EntryWithoutLocale(r.slug, r.locale)
        /\ r.resp[1] = PostNotFound


\* --------------------------------------------------- list endpoint (GET)
\* Publish dates by post id: all different, and not in id order.
PublishDate == <<2, 3, 1, 5, 4>>
SlugEn == <<"one", "two", "three", "four", "five">>
SlugId == <<"satu", "dua", "tiga", "empat", "lima">>

\* The kinds of post the list endpoint is exercised on.
PostKinds ==
    {"both", "draft", "other-locale", "untranslated", "no-tag", "no-file", "padded"}

\* The item of kind k under id: "both" is published in both locales with tags
\* and an image that resolve; "draft" is the same, unpublished; "other-locale"
\* is published in id-ID only; "untranslated" has no translation at all and a
\* tag link that does not exist; "no-tag" has a tag link whose tag does not
\* exist; "no-file" has an image link that does not exist; "padded" has a slug
\* with trailing white space.
KindItem(id, k) ==
    LET en == Translation(<<SlugEn[id]>>, "en-US")
        idn == Translation(<<SlugId[id]>>, "id-ID")
        d == PublishDate[id]
    IN  CASE k = "both" -> Item(id, "published", d, 0, <<2, 1>>, <<1>>, <<en, idn>>)
          [] k = "draft" -> Item(id, "draft", d, 0, <<2, 1>>, <<1>>, <<en, idn>>)
          [] k = "other-locale" -> Item(id, "published", d, NullViews, <<>>, <<>>, <<idn>>)
          [] k = "untranslated" -> Item(id, "published", d, 0, <<9>>, <<>>, <<>>)
          [] k = "no-tag" -> Item(id, "published", d, 0, <<1, 3>>, <<>>, <<en>>)
          [] k = "no-file" -> Item(id, "published", d, 0, <<>>, <<2, 8>>, <<en>>)
          [] k = "padded" ->
                Item(id, "published", d, 0, <<1>>, <<>>,
                     << Translation(<<SlugEn[id], " ">>, "en-US") >>)

ListTables == {[id \in PostIds |-> KindItem(id, kinds[id])] : kinds \in [PostIds -> PostKinds]}

\* sort: ['-date_published'] on an array of items (insertion sort).
RECURSIVE InsertByDate(_, _)
InsertByDate(item, sorted) ==
    IF sorted = <<>> THEN <<item>>
    ELSE IF item.date_published >= Head(sorted).date_published THEN <<item>> \o sorted
    ELSE <<Head(sorted)>> \o InsertByDate(item, Tail(sorted))

RECURSIVE SortByDateDesc(_)
SortByDateDesc(items) ==
    IF items = <<>> THEN <<>> ELSE InsertByDate(Head(items), SortByDateDesc(Tail(items)))

\* The items of the collection in id order.
AllItems(db) == [i \in 1 .. NumPosts |-> db[i]]

\* Mutant of publishedItems: the status filter is lost.
unfilteredItems(db) == AllItems(db)

\* filter: {status: {_eq: 'published'}}
publishedItems(db) == SelectSeq(AllItems(db), LAMBDA item : item.status = "published")

\* The CMS refuses a query whose offset is negative or whose limit is below
\* -1; a limit of -1 asks for every item.
validQuery(limit, offset) == limit >= -1 /\ offset >= 0

\* readItems('blog_posts', {filter, sort, limit, offset}): lines 33-62.
readPosts(db, limit, offset) ==
    LET sorted == SortByDateDesc(publishedItems(db))
        last == IF limit # -1 /\ offset + limit < Len(sorted)
                THEN offset + limit ELSE Len(sorted)
    IN  SubSeq(sorted, offset + 1, last)

\* readItems('blog_posts', {filter, aggregate: {count: ['id']}}): lines 83-92.
totalCount(db) == Len(publishedItems(db))

\* A query parameter as sent: absent, not a number, or a number (negative,
\* zero or positive).
RawParams ==
    {[kind |-> "absent", n |-> 0], [kind |-> "text", n |-> 0], [kind |-> "int", n |-> -1]}
        \cup {[kind |-> "int", n |-> n] : n \in 0 .. MaxPage}
        \cup {[kind |-> "int", n |-> n] : n \in 0 .. MaxLimit}

\* parseInt(searchParams.get(name)) || dflt: NaN and 0 are falsy.
parseIntOr(raw, dflt) == IF raw.kind = "int" /\ raw.n # 0 THEN raw.n ELSE dflt

DefaultPage == 1
DefaultLimit == 10

\* Math.ceil(a / b) for a >= 0 and b # 0.
Ceil(a, b) == IF b > 0 THEN (a + b - 1) \div b ELSE 0 - (a \div (0 - b))

ListResponse(status, error, details, data, meta) ==
    [status |-> status, json |-> TRUE, error |-> error, details |-> details,
     data |-> data, meta |-> meta]

ConfigError == ListResponse(500, "Server configuration error", "", <<>>, <<>>)
AuthFailed ==
    ListResponse(401, "Authentication failed. Please check your Directus token.", "", <<>>, <<>>)

\* error.message of what was thrown.
ErrorMessage(what) ==
    IF what = "TypeError" THEN "Cannot read properties of undefined"
    ELSE IF what = "auth" THEN "Invalid user credentials."
    ELSE "upstream error"

\* Mutant of FetchPostsFailed: the details are sent whatever NODE_ENV is.
FetchPostsFailedVerbose(nodeEnv, what) ==
    ListResponse(500, "Failed to fetch blog posts", ErrorMessage(what), <<>>, <<>>)

\* Lines 154-160: the generic failure; details only in development.
FetchPostsFailed(nodeEnv, what) ==
    ListResponse(500, "Failed to fetch blog posts",
                 IF nodeEnv = "development" THEN ErrorMessage(what) ELSE "", <<>>, <<>>)

\* A list request: its handler position and locals, the upstream calls it has
\* issued, what was thrown into the catch block, and its response.
NewList(locale, page, limit) ==
    [IdleList EXCEPT !.pc = "blog_posts", !.locale = locale, !.page = page, !.limit = limit]

\* The handler returns `resp`: the request is answered and the wrapper returns.
ListAnswer(l, resp) ==
    [l EXCEPT !.pc = "done", !.resp = <<resp>>, !.ret = <<getBlogPosts(<<resp>>)>>]

\* Mutant of CatchList: the posts fetched so far are returned as a partial result.
CatchListPartial(l, nodeEnv, outcome, what) ==
    [ListAnswer(l, ListResponse(200, "", "", <<l.posts>>, <<>>)) EXCEPT !.thrown = what]

\* Lines 138-161: catch (error).  `outcome` is "auth" when the thrown error
\* carries errors[0].message 'Invalid user credentials.'.
CatchList(l, nodeEnv, outcome, what) ==
    [ListAnswer(l, IF outcome = "auth" THEN AuthFailed
                   ELSE FetchPostsFailed(nodeEnv, IF what = "TypeError" THEN what ELSE outcome))
       EXCEPT !.thrown = what]

\* Lines 95-117: the callback of posts.map.  Ok(<<>>) is the null of a post
\* without translations, Ok(<<p>>) a transformed post.
listTransform(post, locale) ==
    LET own == translationOf(post, locale)
    IN  IF own = <<>> /\ post.translations = <<>> THEN Ok(<<>>)
        ELSE LET translation == IF own # <<>> THEN own[1] ELSE post.translations[1]
                 names == tagsName(post)
                 urls == imagesUrl(post)
             IN  IF ~names.ok \/ ~urls.ok THEN Thrown
                 ELSE Ok(<< [id |-> post.id, status |-> post.status,
                             date_published |-> post.date_published,
                             views |-> post.views,
                             tags |-> names.val, images |-> urls.val,
                             slug |-> trim(translation.slug),
                             language |-> translation.languages_code] >>)

\* Lines 95-118: posts.map(...).filter(Boolean); a throw of any callback ends
\* the map.
RECURSIVE transformedPosts(_, _)
transformedPosts(posts, locale) ==
    IF posts = <<>> THEN Ok(<<>>)
    ELSE LET first == listTransform(Head(posts), locale)
             rest == transformedPosts(Tail(posts), locale)
         IN  IF ~first.ok \/ ~rest.ok THEN Thrown
             ELSE Ok(first.val \o rest.val)

\* Mutant of Meta: the last page still announces a next page.
MetaOffByOne(page, limit, total) ==
    LET totalPages == Ceil(total, limit)
    IN  [page |-> page, limit |-> limit, total |-> total, totalPages |-> totalPages,
         hasNext |-> page <= totalPages, hasPrev |-> page > 1]

\* Lines 120-131: meta.
Meta(page, limit, total) ==
    LET totalPages == Ceil(total, limit)
    IN  [page |-> page, limit |-> limit, total |-> total, totalPages |-> totalPages,
         hasNext |-> page < totalPages, hasPrev |-> page > 1]

\* Mutant of ListStart: the configuration check is lost.
ListStartUnchecked(e, locale, rawPage, rawLimit) ==
    NewList(locale, parseIntOr(rawPage, DefaultPage), parseIntOr(rawLimit, DefaultLimit))

\* Lines 12-26: the query parameters and the configuration check.
ListStart(e, locale, rawPage, rawLimit) ==
    LET l == NewList(locale, parseIntOr(rawPage, DefaultPage), parseIntOr(rawLimit, DefaultLimit))
    IN  IF ~e.DIRECTUS_URL \/ ~e.DIRECTUS_TOKEN THEN ListAnswer(l, ConfigError) ELSE l

\* Lines 33-62: the posts query.
AfterListPosts(l, e, db, outcome) ==
    LET called == [l EXCEPT !.calls = Append(@, "blog_posts")]
        offset == (l.page - 1) * l.limit
    IN  IF outcome # "ok" THEN CatchList(called, e.NODE_ENV, outcome, "blog_posts")
        ELSE IF ~validQuery(l.limit, offset)
        THEN CatchList(called, e.NODE_ENV, "error", "blog_posts")
        ELSE [called EXCEPT !.pc = "blog_posts_tags",
                            !.posts = readPosts(db, l.limit, offset)]

\* Lines 64-80: the reads of blog_posts_tags, tags and blog_posts_files.
AfterListLookup(l, e, outcome) ==
    LET called == [l EXCEPT !.calls = Append(@, l.pc)]
    IN  IF outcome # "ok" THEN CatchList(called, e.NODE_ENV, outcome, l.pc)
        ELSE [called EXCEPT !.pc = CASE l.pc = "blog_posts_tags" -> "tags"
                                     [] l.pc = "tags" -> "blog_posts_files"
                                     [] OTHER -> "count"]

\* Lines 83-136: the count query, then the transformation and the response.
AfterListCount(l, e, db, outcome) ==
    LET called == [l EXCEPT !.calls = Append(@, "count")]
    IN  IF outcome # "ok" THEN CatchList(called, e.NODE_ENV, outcome, "count")
        ELSE LET t == transformedPosts(l.posts, l.locale)
             IN  IF ~t.ok THEN CatchList(called, e.NODE_ENV, "error", "TypeError")
                 ELSE ListAnswer(called,
                                 ListResponse(200, "", "", <<t.val>>,
                                              <<Meta(l.page, l.limit, totalCount(db))>>))

ListArrives ==
    /\ list.pc = "idle"
    /\ \E locale \in Locales, rawPage \in RawParams, rawLimit \in RawParams :
          list' = ListStart(env, locale, rawPage, rawLimit)
    /\ UNCHANGED <<env, site, blog_posts, reqs>>

ListReadPosts ==
    /\ list.pc = "blog_posts"
    /\ \E outcome \in CallOutcomes(env) :
          list' = AfterListPosts(list, env, blog_posts, outcome)
    /\ UNCHANGED <<env, site, blog_posts, reqs>>

ListReadLookup ==
    /\ list.pc \in {"blog_posts_tags", "tags", "blog_posts_files"}
    /\ \E outcome \in CallOutcomes(env) :
          list' = AfterListLookup(list, env, outcome)
    /\ UNCHANGED <<env, site, blog_posts, reqs>>

ListReadCount ==
    /\ list.pc = "count"
    /\ \E outcome \in CallOutcomes(env) :
          list' = AfterListCount(list, env, blog_posts, outcome)
    /\ UNCHANGED <<env, site, blog_posts, reqs>>

\* The deployments: configured (either NODE_ENV), rejected by the CMS, or one
\* setting missing.
Environments ==
    { Configured("production"), Configured("development"),
      Rejected("production"), Rejected("development"),
      [Configured("production") EXCEPT !.DIRECTUS_URL = FALSE],
      [Configured("production") EXCEPT !.DIRECTUS_TOKEN = FALSE] }

InitList ==
    /\ env \in Environments
    /\ blog_posts \in ListTables
    /\ reqs = EmptyBag
    /\ list = IdleList
    /\ site = NoSite

NextList ==
    \/ ListArrives
    \/ ListReadPosts
    \/ ListReadLookup
    \/ ListReadCount

SpecList == InitList /\ [][NextList]_vars


\* -------------------------------------------------- list endpoint: properties
ListDone == list.pc = "done"

ListSucceeded == ListDone /\ list.resp[1].status = 200

\* The posts of a successful response.
ListData == list.resp[1].data[1]

UpstreamCalls == {"blog_posts", "blog_posts_tags", "tags", "blog_posts_files", "count"}

\* A tag link or an image link of the post leads nowhere.
UnresolvedRef(post) ==
    \/ \E i \in 1 .. Len(post.tags) :
          \A j \in 1 .. Len(blog_posts_tags) :
              blog_posts_tags[j].id = post.tags[i]
                  => \A k \in 1 .. Len(tags) : tags[k].id # blog_posts_tags[j].tags_id
    \/ \E i \in 1 .. Len(post.images) :
          \A j \in 1 .. Len(blog_posts_files) : blog_posts_files[j].id # post.images[i]

\* C3: every post in the data of a successful list response is published.
NoDraftListed ==
    ListSucceeded =>
        \A i \in 1 .. Len(ListData) :
            /\ ListData[i].status = "published"
            /\ blog_posts[ListData[i].id].status = "published"

\* A first page that holds every post is answered with data while the CMS
\* holds a draft.
NoDraftListedWitness ==
    /\ ListSucceeded
    /\ list.page = 1 /\ list.limit = DefaultLimit
    /\ ListData # <<>>
    /\ \E p \in PostIds : blog_posts[p].status = "draft"

\* C9 (as stated): when every upstream call has answered and a tag or image
\* identifier of any post of the fetched page does not resolve, the response
\* is the generic 500.
AnyUnresolvedFails ==
    (/\ ListDone
     /\ list.thrown \notin UpstreamCalls
     /\ list.calls # <<>>
     /\ \E i \in 1 .. Len(list.posts) : UnresolvedRef(list.posts[i]))
        => list.resp[1] = FetchPostsFailed(env.NODE_ENV, "TypeError")

\* C9 (amended): when every upstream call has answered and a tag or image
\* identifier of a post of the fetched page that has at least one translation
\* does not resolve, the response is the generic 500 without data; and no
\* successful response lists a post with a reference dropped.
UnresolvedTranslatedFails ==
    /\ (/\ ListDone
        /\ list.thrown \notin UpstreamCalls
        /\ list.calls # <<>>
        /\ \E i \in 1 .. Len(list.posts) :
              list.posts[i].translations # <<>> /\ UnresolvedRef(list.posts[i]))
           => list.resp[1] = FetchPostsFailed(env.NODE_ENV, "TypeError")
    /\ ListSucceeded =>
           \A i \in 1 .. Len(ListData) :
               /\ ~UnresolvedRef(blog_posts[ListData[i].id])
               /\ Len(ListData[i].tags) = Len(blog_posts[ListData[i].id].tags)
               /\ Len(ListData[i].images) = Len(blog_posts[ListData[i].id].images)

\* A page holding a resolvable post and a translated post with a dangling
\* reference has been answered with the generic 500.
UnresolvedTranslatedWitness ==
    /\ ListDone /\ list.thrown = "TypeError"
    /\ list.resp[1].status = 500
    /\ \E i, j \in 1 .. Len(list.posts) :
          /\ list.posts[i].translations # <<>> /\ UnresolvedRef(list.posts[i])
          /\ ~UnresolvedRef(list.posts[j])

\* C10: when an upstream call of a list request fails, the response is an
\* error response without post data or meta, the failed call is the last call
\* of the request, and no call was issued twice.
ListFailureIsTotal ==
    /\ \A i, j \in 1 .. Len(list.calls) : list.calls[i] = list.calls[j] => i = j
    /\ (ListDone /\ list.thrown \in UpstreamCalls)
           => /\ list.resp[1].status \in {401, 500}
              /\ list.resp[1].data = <<>>
              /\ list.resp[1].meta = <<>>
              /\ list.calls[Len(list.calls)] = list.thrown

\* The tags call failed after a non-empty page of posts had been fetched.
ListFailureWitness ==
    /\ ListDone /\ list.thrown = "tags"
    /\ list.posts # <<>>
    /\ list.resp[1].status = 500

\* ------------------------------------------------ error responses: properties
\* C11: when the CMS rejects authentication, the request is answered with
\* HTTP 401 and the generic authentication message, by the list endpoint and
\* by the detail endpoint.
AuthRejectedIs401 ==
    /\ (ListDone /\ list.calls # <<>> /\ env.credentials = "rejected")
           => list.resp[1] = AuthFailed
    /\ \A r \in Reqs :
          (Answered(r) /\ env.credentials = "rejected")
              => /\ r.resp[1].status = 401
                 /\ r.resp[1].data = <<>>

\* The error responses of the list endpoint and of the detail endpoint.
ListFailed == ListDone /\ list.resp[1].status # 200

MissingConfigIs500 ==
    (list.pc # "idle" /\ (~env.DIRECTUS_URL \/ ~env.DIRECTUS_TOKEN))
        => /\ ListDone
           /\ list.resp[1] = ConfigError
           /\ list.calls = <<>>
           /\ list.posts = <<>>

\* A list request has been answered in a deployment without its token.
MissingConfigWitness ==
    /\ env.DIRECTUS_URL /\ ~env.DIRECTUS_TOKEN
    /\ ListDone
    /\ list.resp[1].status = 500

\* C14 (as stated): every 404 response of the detail endpoint has the body
\* {error: "Post not found"}.
Every404IsPostNotFound ==
    \A r \in Reqs :
        (Answered(r) /\ r.resp[1].status = 404) => r.resp[1] = PostNotFound

\* C14 (amended): a 404 response of the detail endpoint is "Post not found"
\* when the lookup by slug and locale matched nothing or the matched post is
\* not published, and "Translation not found" when the matched post was read
\* and no longer has a translation in the requested locale.
NotFoundBodies ==
    \A r \in Reqs :
        (Answered(r) /\ r.resp[1].status = 404)
            => IF r.post = <<>> THEN r.resp[1] = PostNotFound
               ELSE IF readPost(blog_posts, r.post[1].id) = <<>>
                    THEN r.resp[1] = PostNotFound
                    ELSE /\ r.resp[1] = TranslationNotFound
                         /\ translationOf(blog_posts[r.post[1].id], r.locale) = <<>>

\* A request whose slug and locale matched a published post has been answered
\* with "Translation not found".
NotFoundBodiesWitness ==
    \E r \in Reqs :
        /\ Answered(r) /\ r.resp[1] = TranslationNotFound
        /\ r.post # <<>>
        /\ blog_posts[r.post[1].id].status = "published"

\* ---------------------------------------------- list endpoint: query and meta
\* C15: whatever the page and limit parameters of a list request are, the
\* page and limit the handler uses satisfy page >= 1 and limit >= 1, and the
\* offset (page - 1) * limit is not negative.
PageAndLimitPositive ==
    list.pc # "idle"
        => /\ list.page >= 1
           /\ list.limit >= 1
           /\ (list.page - 1) * list.limit >= 0

\* The meta of a successful list response.
ListMeta == list.resp[1].meta[1]

\* The posts of the CMS whose status is published.
PublishedIds == {p \in PostIds : blog_posts[p].status = "published"}

\* n is the least integer that is at least a / b.
IsCeil(n, a, b) ==
    IF b > 0 THEN n * b >= a /\ (n - 1) * b < a
    ELSE n * b <= a /\ (n - 1) * b > a

\* C16: in every successful list response, meta.total is the number of
\* published posts, meta.totalPages is ceil(meta.total / meta.limit),
\* meta.hasNext holds exactly when meta.page < meta.totalPages and
\* meta.hasPrev exactly when meta.page > 1.
MetaIsConsistent ==
    ListSucceeded
        => /\ ListMeta.page = list.page /\ ListMeta.limit = list.limit
           /\ ListMeta.total = Cardinality(PublishedIds)
           /\ IsCeil(ListMeta.totalPages, ListMeta.total, ListMeta.limit)
           /\ ListMeta.hasNext <=> (ListMeta.page < ListMeta.totalPages)
           /\ ListMeta.hasPrev <=> (ListMeta.page > 1)

\* A first page of a list that takes more than one page, while the CMS also
\* holds a post that is not published.
MetaWitness ==
    /\ ListSucceeded
    /\ ListMeta.page = 1 /\ ListMeta.limit = MaxLimit
    /\ ListMeta.total > MaxLimit /\ ListMeta.total < NumPosts + 1
    /\ ListMeta.total % ListMeta.limit # 0
    /\ ListMeta.hasNext /\ ~ListMeta.hasPrev

\* The position (from 0) of a published post in the sequence of published
\* posts sorted by publish date descending.
Position(p) ==
    Cardinality({q \in PublishedIds :
                    blog_posts[q].date_published > blog_posts[p].date_published})

\* The published posts that have a translation and whose position lies in
\* the window of (page, limit).
WindowIds(page, limit) ==
    {p \in PublishedIds :
        /\ blog_posts[p].translations # <<>>
        /\ Position(p) >= (page - 1) * limit
        /\ Position(p) <= page * limit - 1}

\* C17: a successful list response for (page, limit) holds, in order, the
\* posts at positions (page - 1) * limit .. page * limit - 1 of the published
\* posts sorted by publish date descending, without the posts that have no
\* translation; publish dates in data do not increase.
DataIsTheWindow ==
    ListSucceeded
        => /\ {ListData[i].id : i \in 1 .. Len(ListData)}
                  = WindowIds(list.page, list.limit)
           /\ \A i, j \in 1 .. Len(ListData) :
                  i < j => /\ Position(ListData[i].id) < Position(ListData[j].id)
                           /\ ListData[i].date_published >= ListData[j].date_published

\* --------------------------------------------- both endpoints on one content
\* The list endpoint and one detail request at a time, served from the same
\* CMS content.
NextBoth ==
    \/ NextAlone
    \/ NextList

SpecBoth == Init /\ [][NextBoth]_vars

\* names is, element by element, the name of the tag that the link row of
\* each tag-link identifier points to.
NamesOfLinks(names, links) ==
    /\ Len(names) = Len(links)
    /\ \A i \in 1 .. Len(links) :
          \E j \in 1 .. Len(blog_posts_tags), k \in 1 .. Len(tags) :
              /\ blog_posts_tags[j].id = links[i]
              /\ tags[k].id = blog_posts_tags[j].tags_id
              /\ names[i] = tags[k].name

\* C18: in every successful list or detail response, the tags of each post
\* have the length and order of the post's tag-link identifiers, and each
\* element is the name of the tag reached through the link table.
TagsAreNames ==
    /\ ListSucceeded
           => \A i \in 1 .. Len(ListData) :
                  NamesOfLinks(ListData[i].tags, blog_posts[ListData[i].id].tags)
    /\ \A r \in Reqs :
          Succeeded(r)
              => NamesOfLinks(r.resp[1].data[1].tags,
                              blog_posts[r.resp[1].data[1].id].tags)

\* A list response and a detail response both carry a post with two tags.
TagsAreNamesWitness ==
    /\ ListSucceeded
    /\ \E i \in 1 .. Len(ListData) : Len(ListData[i].tags) = 2
    /\ \E r \in Reqs : Succeeded(r) /\ Len(r.resp[1].data[1].tags) = 2

\* ------------------------------------------------------- the fetch wrappers
\* A response that does not come from the routes (a gateway, a stale
\* deployment): any status, a body that is not JSON or JSON with or without
\* data.
OtherStatuses == {200, 204, 302, 404, 502}

OtherResponses(data) ==
    {[Response(status, "", d) EXCEPT !.json = json] :
        status \in OtherStatuses, json \in BOOLEAN, d \in {<<>>, data}}

\* What fetch gives when the request does not reach the route: it throws
\* (<<>>) or it resolves to some other response.
FetchedElsewhere(data) == {<<>>} \cup {<<response>> : response \in OtherResponses(data)}

\* The fetch of getBlogPosts throws or is answered by something else than the
\* route.
ListFetchedElsewhere ==
    /\ list.pc = "idle"
    /\ \E fetched \in FetchedElsewhere(<< <<>> >>) :
          list' = [IdleList EXCEPT !.pc = "done", !.resp = fetched,
                                   !.ret = <<getBlogPosts(fetched)>>]
    /\ UNCHANGED <<env, site, blog_posts, reqs>>

\* The fetch of getBlogPost throws or is answered by something else than the
\* route.
DetailFetchedElsewhere ==
    /\ reqs = EmptyBag
    /\ \E in \in DetailInputs, fetched \in FetchedElsewhere(<<[id |-> 1]>>) :
          reqs' = SetToBag({[NewRequest(in.slug, in.locale) EXCEPT
                                !.pc = "done", !.resp = fetched,
                                !.ret = <<getBlogPost(fetched)>>]})
    /\ UNCHANGED <<env, site, blog_posts, list>>

NextFetch ==
    \/ NextBoth
    \/ DetailFetchedElsewhere
    \/ ListFetchedElsewhere

SpecFetch == Init /\ [][NextFetch]_vars

\* What the wrapper must return for what was fetched: nothing when the fetch
\* threw, the status is not 2xx, the body is not JSON or has no data.
Degrades(fetched) ==
    \/ fetched = <<>>
    \/ fetched[1].status < 200 \/ fetched[1].status > 299
    \/ ~fetched[1].json
    \/ fetched[1].data = <<>>

\* C19: whenever the HTTP call throws, returns a status that is not 2xx or a
\* body without data, getBlogPosts returns the empty list and getBlogPost
\* returns null; neither throws to its caller.
WrappersDegrade ==
    /\ list.pc = "done"
           => /\ ~list.ret[1].threw
              /\ Degrades(list.resp) => list.ret[1].val = <<>>
              /\ ~Degrades(list.resp) => list.ret[1].val = list.resp[1].data[1]
    /\ \A r \in Reqs :
          r.pc = "done"
              => /\ ~r.ret[1].threw
                 /\ Degrades(r.resp) => r.ret[1].val = <<>>
                 /\ ~Degrades(r.resp) => r.ret[1].val = r.resp[1].data

\* Both wrappers have returned without data: getBlogPosts after a 2xx body
\* without data, getBlogPost after a fetch that threw.
WrappersDegradeWitness ==
    /\ list.pc = "done" /\ list.resp # <<>>
    /\ list.resp[1].status = 200 /\ list.resp[1].json /\ list.resp[1].data = <<>>
    /\ list.ret[1].val = <<>>
    /\ \E r \in Reqs : r.pc = "done" /\ r.resp = <<>> /\ r.ret[1].val = <<>>

\* ------------------------------------------------ the normalization adapter
MaxBlogs == 2

\* The locale the adapter gives every static post (the one the blog page asks
\* the CMS for).
AdapterLocale == "id-ID"

\* blog.readingTime as compiled: absent, null, a bare number, an estimate
\* object with minutes, or an object without minutes.  Minutes are whole here.
ReadingTimes ==
    { [kind |-> "absent", minutes |-> <<>>], [kind |-> "null", minutes |-> <<>>],
      [kind |-> "number", minutes |-> <<4>>], [kind |-> "object", minutes |-> <<>>],
      [kind |-> "object", minutes |-> <<0>>], [kind |-> "object", minutes |-> <<3>>] }

\* The compiled static posts (CoreContent<Blog>).  Optional fields are <<>>
\* when absent.
CompiledBlogs ==
    [ slug : {"welcome", "pricing"}, title : {"Welcome"}, date : {"2024-01-02"},
      lastmod : {<<>>, <<"2024-02-03">>},
      draft : {<<>>, <<TRUE>>},
      summary : {<<>>},
      tags : {<<>>, << <<"next-js", "guide">> >>},
      images : {<<>>},
      readingTime : ReadingTimes ]

\* typeof x === 'object'
isObject(readingTime) == readingTime.kind \in {"null", "object"}

\* x || dflt for an optional value
OrElse(opt, dflt) == IF opt = <<>> THEN dflt ELSE opt[1]

\* blog.readingTime?.minutes || 0
minutesOrZero(readingTime) ==
    IF readingTime.minutes = <<>> THEN 0 ELSE readingTime.minutes[1]

\* The BlogPost the adapter builds, with `reading_time` as given.
BlogPostOf(blog, reading_time) ==
    [ id |-> 0,
      status |-> IF blog.draft = <<TRUE>> THEN "draft" ELSE "published",
      date_created |-> blog.date,
      date_updated |-> OrElse(blog.lastmod, blog.date),
      date_published |-> blog.date,
      reading_time |-> reading_time,
      views |-> 0,
      images |-> blog.images,
      tags |-> OrElse(blog.tags, <<>>),
      title |-> blog.title,
      slug |-> blog.slug,
      summary |-> OrElse(blog.summary, ""),
      content |-> <<>>,
      language |-> AdapterLocale ]

\* Mutant of transformBlogToBlogPost: minutes is read without the optional
\* chaining, so a null readingTime throws.
transformBlogToBlogPostUnchained(blog) ==
    IF blog.readingTime.kind = "null" THEN Thrown
    ELSE Ok(BlogPostOf(blog, IF isObject(blog.readingTime)
                             THEN minutesOrZero(blog.readingTime) ELSE 0))

\* transformBlogToBlogPost: lines 5-22.
transformBlogToBlogPost(blog) ==
    Ok(BlogPostOf(blog, IF isObject(blog.readingTime)
                        THEN minutesOrZero(blog.readingTime) ELSE 0))

\* Mutant of transformBlogsToBlogPosts: the posts come out in reverse order.
RECURSIVE transformBlogsReversed(_)
transformBlogsReversed(blogs) ==
    IF blogs = <<>> THEN Ok(<<>>)
    ELSE LET first == transformBlogToBlogPost(Head(blogs))
             rest == transformBlogsReversed(Tail(blogs))
         IN  IF ~first.ok \/ ~rest.ok THEN Thrown
             ELSE Ok(rest.val \o <<first.val>>)

\* transformBlogsToBlogPosts: blogs.map(transformBlogToBlogPost).
RECURSIVE transformBlogsToBlogPosts(_)
transformBlogsToBlogPosts(blogs) ==
    IF blogs = <<>> THEN Ok(<<>>)
    ELSE LET first == transformBlogToBlogPost(Head(blogs))
             rest == transformBlogsToBlogPosts(Tail(blogs))
         IN  IF ~first.ok \/ ~rest.ok THEN Thrown
             ELSE Ok(<<first.val>> \o rest.val)

\* The sequences over S of length at most n.
SeqUpTo(S, n) == UNION {[1 .. k -> S] : k \in 0 .. n}

\* The blog page maps the compiled posts through the adapter.
AdaptStaticPosts ==
    /\ site.pc = "start"
    /\ LET posts == transformBlogsToBlogPosts(site.blogs)
       IN  site' = IF posts.ok THEN [site EXCEPT !.pc = "adapted", !.posts = posts.val]
                   ELSE [site EXCEPT !.pc = "failed"]
    /\ UNCHANGED <<env, blog_posts, reqs, list>>

InitStatic ==
    /\ env = Configured("production")
    /\ blog_posts = DetailPosts
    /\ reqs = EmptyBag
    /\ list = IdleList
    /\ site \in {[NoSite EXCEPT !.blogs = blogs] : blogs \in SeqUpTo(CompiledBlogs, MaxBlogs)}

NextStatic == AdaptStaticPosts

SpecStatic == InitStatic /\ [][NextStatic]_vars

AdapterPassesThrough ==
    site.pc = "adapted"
        => /\ Len(site.posts) = Len(site.blogs)
           /\ \A i \in 1 .. Len(site.blogs) :
                 /\ site.posts[i].slug = site.blogs[i].slug
                 /\ site.posts[i].title = site.blogs[i].title
                 /\ site.blogs[i].tags # <<>> => site.posts[i].tags = site.blogs[i].tags[1]
                 /\ site.blogs[i].tags = <<>> => site.posts[i].tags = <<>>

\* Two posts with different slugs, the first of them tagged, have been adapted.
AdapterPassesThroughWitness ==
    /\ site.pc = "adapted"
    /\ Len(site.blogs) = 2
    /\ site.blogs[1].slug # site.blogs[2].slug
    /\ site.blogs[1].tags # <<>>
    /\ Len(site.posts[1].tags) = 2

\* ------------------------------------------------------------- pagination
MaxItems == 7
MaxPageSize == 5
MaxCurrent == 4

\* const ITEMS_PER_PAGE = 4 (project listing)
ITEMS_PER_PAGE == 4

Min(a, b) == IF a < b THEN a ELSE b
Max(a, b) == IF a > b THEN a ELSE b

\* Mutant of slice: the element at `end` is taken too.
sliceInclusive(arr, start, end) ==
    LET len == Len(arr)
        from == IF start < 0 THEN Max(len + start, 0) ELSE Min(start, len)
        to == IF end < 0 THEN Max(len + end, 0) ELSE Min(end + 1, len)
    IN  SubSeq(arr, from + 1, to)

\* Array.prototype.slice(start, end): indices from 0, end excluded, both
\* clipped to the array, negative indices counted from its end.
slice(arr, start, end) ==
    LET len == Len(arr)
        from == IF start < 0 THEN Max(len + start, 0) ELSE Min(start, len)
        to == IF end < 0 THEN Max(len + end, 0) ELSE Min(end, len)
    IN  SubSeq(arr, from + 1, to)

\* Math.ceil(items.length / pageSize)
totalPages(items, pageSize) == Ceil(Len(items), pageSize)

startIndex(currentPage, pageSize) == (currentPage - 1) * pageSize
endIndex(currentPage, pageSize) == startIndex(currentPage, pageSize) + pageSize

\* The page of items shown for currentPage.
visible(items, pageSize, currentPage) ==
    slice(items, startIndex(currentPage, pageSize), endIndex(currentPage, pageSize))

\* Mutant of displayedProjects: teaser mode follows the pagination state.
displayedProjectsPaged(isMain, projects, pageSize, currentPage) ==
    visible(projects, pageSize, currentPage)

\* displayedProjects: the first page in teaser mode, the current page otherwise.
displayedProjects(isMain, projects, pageSize, currentPage) ==
    IF isMain THEN slice(projects, 0, pageSize)
    ELSE visible(projects, pageSize, currentPage)

\* disabled={currentPage === 1} of the previous button
previousDisabled(currentPage) == currentPage = 1

\* Mutant of nextDisabled: the next button is disabled on the first page.
nextDisabledOnFirst(currentPage, pages) == currentPage = 1

\* disabled={currentPage === totalPages} of the next button
nextDisabled(currentPage, pages) == currentPage = pages

\* A listing component: its props, its state and what it shows.  Teaser mode
\* (isMain) shows no pagination controls.
Listing(isMain, items, pageSize, currentPage) ==
    [pc |-> "listing", isMain |-> isMain, items |-> items, pageSize |-> pageSize,
     currentPage |-> currentPage,
     totalPages |-> totalPages(items, pageSize),
     displayed |-> displayedProjects(isMain, items, pageSize, currentPage),
     previousDisabled |-> previousDisabled(currentPage),
     nextDisabled |-> nextDisabled(currentPage, totalPages(items, pageSize))]

\* A collection of n items, told apart by their position.
Items(n) == [i \in 1 .. n |-> i]

\* const MAX_DISPLAY = 5 (home page)
MAX_DISPLAY == 5

\* The posts section of the home page: posts.slice(0, MAX_DISPLAY).
Home(posts) == [pc |-> "home", posts |-> posts, displayed |-> slice(posts, 0, MAX_DISPLAY)]

\* The home page renders its posts section.
RenderHome ==
    /\ site.pc = "home-props"
    /\ site' = Home(site.posts)
    /\ UNCHANGED <<env, blog_posts, reqs, list>>

\* The pagination computation on given inputs.
Paginate ==
    /\ site.pc = "inputs"
    /\ site' = Listing(site.isMain, site.items, site.pageSize, site.currentPage)
    /\ UNCHANGED <<env, blog_posts, reqs, list>>

InitPaginate ==
    /\ env = Configured("production")
    /\ blog_posts = DetailPosts
    /\ reqs = EmptyBag
    /\ list = IdleList
    /\ site \in {[pc |-> "inputs", isMain |-> isMain, items |-> Items(n),
                  pageSize |-> pageSize, currentPage |-> currentPage] :
                    isMain \in BOOLEAN, n \in 0 .. MaxItems,
                    pageSize \in 1 .. MaxPageSize, currentPage \in 1 .. MaxCurrent}
                \cup {[pc |-> "home-props", posts |-> Items(n)] : n \in 0 .. MaxItems}

NextPaginate ==
    \/ Paginate
    \/ RenderHome

SpecPaginate == InitPaginate /\ [][NextPaginate]_vars

\* The pages (from 1 to the page count) that show the item.
PagesShowing(item, items, pageSize) ==
    {page \in 1 .. totalPages(items, pageSize) :
        \E i \in 1 .. Len(visible(items, pageSize, page)) :
            visible(items, pageSize, page)[i] = item}

\* C22: the computation shows items[(currentPage-1)*pageSize ..
\* currentPage*pageSize) clipped to the collection, in order and at most
\* pageSize of them; totalPages is ceil(length / pageSize); an empty
\* collection gives nothing and 0 pages; a page beyond the last gives
\* nothing; the pages 1..totalPages hold every item exactly once.
PaginationIsCorrect ==
    (site.pc = "listing" /\ ~site.isMain)
        => LET n == Len(site.items)
               first == (site.currentPage - 1) * site.pageSize
               shown == {i \in 1 .. n : i - 1 >= first /\ i - 1 < first + site.pageSize}
           IN  /\ Len(site.displayed) = Cardinality(shown)
               /\ \A k \in 1 .. Len(site.displayed) : site.displayed[k] = site.items[first + k]
               /\ Len(site.displayed) <= site.pageSize
               /\ IsCeil(site.totalPages, n, site.pageSize)
               /\ n = 0 => (site.displayed = <<>> /\ site.totalPages = 0)
               /\ site.currentPage > site.totalPages => site.displayed = <<>>
               /\ \A i \in 1 .. n :
                     Cardinality(PagesShowing(site.items[i], site.items, site.pageSize)) = 1
               /\ (n = 7 /\ site.pageSize = 5)
                     => /\ site.totalPages = 2
                        /\ site.currentPage = 1 => Len(site.displayed) = 5
                        /\ site.currentPage = 2 => Len(site.displayed) = 2

\* Seven items at page size 5 on page 2: the last, partial page.
PaginationWitness ==
    /\ site.pc = "listing" /\ ~site.isMain
    /\ Len(site.items) = 7 /\ site.pageSize = 5 /\ site.currentPage = 2
    /\ Len(site.displayed) = 2

\* ------------------------------------------------- the listings' navigation
\* handlePageChange(newPage): setCurrentPage, then the component renders again.
handlePageChange(l, newPage) == Listing(l.isMain, l.items, l.pageSize, newPage)

\* A click on the previous button.
ClickPrevious ==
    /\ site.pc = "listing" /\ ~site.isMain
    /\ ~site.previousDisabled
    /\ site' = handlePageChange(site, site.currentPage - 1)
    /\ UNCHANGED <<env, blog_posts, reqs, list>>

\* A click on the next button (pages are explored up to MaxCurrent).
ClickNext ==
    /\ site.pc = "listing" /\ ~site.isMain
    /\ ~site.nextDisabled
    /\ site.currentPage < MaxCurrent
    /\ site' = handlePageChange(site, site.currentPage + 1)
    /\ UNCHANGED <<env, blog_posts, reqs, list>>

\* A click on one of the page-number buttons 1..totalPages.
ClickPage ==
    /\ site.pc = "listing" /\ ~site.isMain
    /\ \E i \in 0 .. site.totalPages - 1 :
          site' = handlePageChange(site, i + 1)
    /\ UNCHANGED <<env, blog_posts, reqs, list>>

\* Pagination({totalPages, currentPage}) of the blog list layout.
Pagination(pages, currentPage) ==
    [pc |-> "pagination", totalPages |-> pages, currentPage |-> currentPage,
     prevPage |-> currentPage - 1 > 0,
     nextPage |-> currentPage + 1 <= pages]

\* The blog list layout renders its pagination from the props it was given.
RenderPagination ==
    /\ site.pc = "pagination-props"
    /\ site' = Pagination(site.totalPages, site.currentPage)
    /\ UNCHANGED <<env, blog_posts, reqs, list>>

\* A project listing on its first page (teaser or full), or a blog list
\* layout about to render its pagination.
InitListing ==
    /\ env = Configured("production")
    /\ blog_posts = DetailPosts
    /\ reqs = EmptyBag
    /\ list = IdleList
    /\ site \in {Listing(isMain, Items(n), pageSize, 1) :
                    isMain \in BOOLEAN, n \in 0 .. MaxItems,
                    pageSize \in 1 .. MaxPageSize}
                \cup {[pc |-> "pagination-props", totalPages |-> pages,
                       currentPage |-> currentPage] :
                          pages \in 0 .. MaxCurrent, currentPage \in 1 .. MaxCurrent}

NextListing ==
    \/ ClickPrevious
    \/ ClickNext
    \/ ClickPage
    \/ RenderPagination

SpecListing == InitListing /\ [][NextListing]_vars

FirstItems(seq, k) == [i \in 1 .. (IF k < Len(seq) THEN k ELSE Len(seq)) |-> seq[i]]

\* C24: in teaser mode the displayed items are exactly the first
\* min(pageSize, total) items of the collection, whatever currentPage is; the
\* home page shows the first min(5, total) posts.
TeaserShowsFirstItems ==
    /\ (site.pc = "listing" /\ site.isMain)
           => site.displayed = FirstItems(site.items, site.pageSize)
    /\ site.pc = "home" => site.displayed = FirstItems(site.posts, 5)

\* A teaser over seven items with page size 4 whose pagination state is 3.
TeaserWitness ==
    /\ site.pc = "listing" /\ site.isMain
    /\ site.currentPage = 3 /\ site.pageSize = ITEMS_PER_PAGE
    /\ Len(site.items) = 7 /\ Len(site.displayed) = 4

\* ---------------------------------------------------------------------------
\* The sitemap (src/app/sitemap.ts).  Text that the code takes apart is a
\* sequence of one-character strings; a URL is the sequence of the pieces the
\* template literal joins.

MaxCities == 2

siteUrl == "https://example.com"

\* The documents of allBlogs as far as the sitemap reads them.  `draft` and
\* `lastmod` are optional; the path of a document is its file path, so the
\* documents of one collection have different paths.
SitemapBlogs ==
    [ path : {"blog/welcome", "blog/pricing", "blog/notes"},
      date : {"2024-01-02"},
      lastmod : {<<>>, <<"2024-02-03">>},
      draft : {<<>>, <<FALSE>>, <<TRUE>>} ]

DistinctPaths(blogs) ==
    \A i, j \in 1 .. Len(blogs) : blogs[i].path = blogs[j].path => i = j

\* !post.draft
notDraft(post) == post.draft # <<TRUE>>

\* String.prototype.toLowerCase, one character at a time.
toLowerCase(c) ==
    CASE c = "K" -> "k"
      [] c = "T" -> "t"
      [] OTHER -> c

LowerAll(s) == [i \in 1 .. Len(s) |-> toLowerCase(s[i])]

\* replace(/\s+/g, '-'): every run of white space becomes one hyphen.
RECURSIVE HyphenateSpaces(_)
HyphenateSpaces(s) ==
    IF s = <<>> THEN <<>>
    ELSE IF Head(s) = " "
         THEN IF Len(s) > 1 /\ s[2] = " " THEN HyphenateSpaces(Tail(s))
              ELSE <<"-">> \o HyphenateSpaces(Tail(s))
         ELSE <<Head(s)>> \o HyphenateSpaces(Tail(s))

\* \w or the hyphen
WordChars == {"a", "k", "t", "K", "T", "1", "_", "-"}

\* replace(/[^\w-]/g, '')
RECURSIVE KeepWordChars(_)
KeepWordChars(s) ==
    IF s = <<>> THEN <<>>
    ELSE (IF Head(s) \in WordChars THEN <<Head(s)>> ELSE <<>>) \o KeepWordChars(Tail(s))

\* setSlug: text.trim().toLowerCase().replace(/\s+/g, '-').replace(/[^\w-]/g, '')
setSlug(text) == KeepWordChars(HyphenateSpaces(LowerAll(trim(text))))

\* Mutant of blogRoutes: the draft filter is lost.
blogRoutesUnfiltered(allBlogs) ==
    [i \in 1 .. Len(allBlogs) |->
        [ url |-> <<siteUrl, "/", allBlogs[i].path>>,
          lastModified |-> OrElse(allBlogs[i].lastmod, allBlogs[i].date),
          changeFrequency |-> "monthly",
          priority |-> 8 ]]

\* blogRoutes: lines 18-25.  Priorities are in tenths.
RECURSIVE blogRoutes(_)
blogRoutes(allBlogs) ==
    IF allBlogs = <<>> THEN <<>>
    ELSE LET post == Head(allBlogs)
         IN  (IF notDraft(post)
              THEN << [ url |-> <<siteUrl, "/", post.path>>,
                        lastModified |-> OrElse(post.lastmod, post.date),
                        changeFrequency |-> "monthly",
                        priority |-> 8 ] >>
              ELSE <<>>) \o blogRoutes(Tail(allBlogs))

\* The four fixed routes: lines 27-32.
StaticNames == <<"", "blog", "projects", "tags">>

routes(today) ==
    [i \in 1 .. Len(StaticNames) |->
        [ url |-> <<siteUrl, "/", StaticNames[i]>>,
          lastModified |-> today,
          changeFrequency |-> "daily",
          priority |-> 7 ]]

CityPrefix == "/blog/id/jasa-pembuatan-website-murah-di-"

\* data.map(...) of lines 41-46; setSlug throws on a city without a name.
RECURSIVE cityRoutes(_, _)
cityRoutes(data, today) ==
    IF data = <<>> THEN Ok(<<>>)
    ELSE LET city == Head(data)
             rest == cityRoutes(Tail(data), today)
         IN  IF city.nama = <<>> \/ ~rest.ok THEN Thrown
             ELSE Ok(<< [ url |-> <<siteUrl, CityPrefix>> \o setSlug(city.nama[1]),
                          lastModified |-> today,
                          changeFrequency |-> "daily",
                          priority |-> 7 ] >> \o rest.val)

\* The body of the try block: lines 36-46.  `fetched` is what the city
\* fetch came to: it threw, or it answered with a status and a body.
blogIdTry(fetched, today) ==
    IF fetched.kind = "threw" THEN Thrown
    ELSE IF ~responseOk(fetched) THEN Thrown
    ELSE IF ~fetched.json THEN Thrown
    ELSE IF ~fetched.array THEN Thrown
    ELSE cityRoutes(fetched.data, today)

\* Mutant of blogId: no catch around the fetch.
blogIdUncaught(fetched, today) == blogIdTry(fetched, today)

\* blogId: lines 34-51; the catch turns every failure into no routes.
blogId(fetched, today) ==
    LET tried == blogIdTry(fetched, today)
    IN  IF tried.ok THEN tried ELSE Ok(<<>>)

\* sitemap: lines 15-56.
sitemap(allBlogs, fetched, today) ==
    LET blogIdRoutes == blogId(fetched, today)
    IN  IF ~blogIdRoutes.ok THEN Thrown
        ELSE Ok(routes(today) \o blogRoutes(allBlogs) \o blogIdRoutes.val)

CityNames ==
    { <<"K", "a">>, <<" ", "K", " ", " ", "T", ".", " ">>, <<"t", "a", "1">> }

Cities == [nama : {<<>>} \cup {<<n>> : n \in CityNames}]

CityResponse(status, json, array, data) ==
    [kind |-> "response", status |-> status, json |-> json, array |-> array, data |-> data]

CityFetches ==
    {[kind |-> "threw"], CityResponse(404, TRUE, FALSE, <<>>), CityResponse(500, FALSE, FALSE, <<>>),
     CityResponse(200, FALSE, FALSE, <<>>), CityResponse(200, TRUE, FALSE, <<>>)}
    \cup {CityResponse(200, TRUE, TRUE, data) : data \in SeqUpTo(Cities, MaxCities)}

GenerateSitemap ==
    /\ site.pc = "sitemap-inputs"
    /\ site' = [site EXCEPT !.pc = "sitemap",
                            !.ret = <<sitemap(site.allBlogs, site.fetched, site.today)>>]
    /\ UNCHANGED <<env, blog_posts, reqs, list>>

InitSitemap ==
    /\ env = Configured("production")
    /\ blog_posts = DetailPosts
    /\ reqs = EmptyBag
    /\ list = IdleList
    /\ site \in {[pc |-> "sitemap-inputs", allBlogs |-> blogs, fetched |-> fetched,
                  today |-> "2024-03-04", ret |-> <<>>] :
                    blogs \in {b \in SeqUpTo(SitemapBlogs, MaxBlogs) : DistinctPaths(b)},
                    fetched \in CityFetches}

NextSitemap == GenerateSitemap

SpecSitemap == InitSitemap /\ [][NextSitemap]_vars

\* The URLs of the blog routes of a generated sitemap: what follows the four
\* fixed routes and carries the blog routes' change frequency.
BlogUrls(result) ==
    LET monthly == SelectSeq(result, LAMBDA r : r.changeFrequency = "monthly")
    IN  [i \in 1 .. Len(monthly) |-> monthly[i].url]

RoutesTo(result, path) ==
    {i \in 1 .. Len(result) : result[i].url = <<siteUrl, "/", path>>}

\* C25: a generated sitemap holds no route to a draft document, every blog
\* route is the route of a document that is not a draft, and every document
\* that is not a draft has exactly one route.
SitemapHasNoDraft ==
    (site.pc = "sitemap") =>
        /\ site.ret[1].ok
        /\ LET result == site.ret[1].val
               allBlogs == site.allBlogs
           IN  /\ \A i \in 1 .. Len(allBlogs) :
                      Cardinality(RoutesTo(result, allBlogs[i].path))
                          = IF allBlogs[i].draft = <<TRUE>> THEN 0 ELSE 1
               /\ \A u \in Range(BlogUrls(result)) :
                      \E i \in 1 .. Len(allBlogs) :
                          /\ u = <<siteUrl, "/", allBlogs[i].path>>
                          /\ allBlogs[i].draft # <<TRUE>>

SitemapWitness ==
    /\ site.pc = "sitemap"
    /\ \E i, j \in 1 .. Len(site.allBlogs) :
           site.allBlogs[i].draft = <<TRUE>> /\ site.allBlogs[j].draft = <<FALSE>>
    /\ Len(BlogUrls(site.ret[1].val)) = 1

\* The city fetch failed: it threw, or it answered with a status that is not OK.
CityFetchFailed(fetched) ==
    \/ fetched.kind = "threw"
    \/ fetched.kind = "response" /\ ~(fetched.status \in 200 .. 299)

\* C30: when the city fetch fails, the sitemap is still returned, and it is the
\* four fixed routes followed by the routes of the documents that are not
\* drafts, in their order, and nothing else.
SitemapSurvivesFetchFailure ==
    (site.pc = "sitemap" /\ CityFetchFailed(site.fetched)) =>
        /\ site.ret[1].ok
        /\ LET result == site.ret[1].val
               shown == SelectSeq(site.allBlogs, LAMBDA post : post.draft # <<TRUE>>)
               fixed == Len(StaticNames)
           IN  /\ Len(result) = fixed + Len(shown)
               /\ \A i \in 1 .. fixed : result[i].url = <<siteUrl, "/", StaticNames[i]>>
               /\ \A i \in 1 .. Len(shown) :
                      result[fixed + i].url = <<siteUrl, "/", shown[i].path>>

SitemapFailureWitness ==
    /\ site.pc = "sitemap"
    /\ site.fetched.kind = "response"
    /\ site.fetched.status = 500
    /\ Len(site.allBlogs) = 2
    /\ site.allBlogs[1].draft = <<TRUE>>
    /\ site.allBlogs[2].draft = <<>>
    /\ Len(site.ret[1].val) = Len(StaticNames) + 1

\* ---------------------------------------------------------------------------
\* The static blog page (src/app/blog/page.tsx, lines 9-33).

BlogPageLimit == 100

pageNumber == 1

\* The documents of allBlogs as the blog page reads them.
PageBlogs ==
    [ slug : {"welcome", "pricing"}, title : {"Welcome"},
      date : {"2024-01-02", "2024-05-06"},
      lastmod : {<<>>},
      draft : {<<>>, <<FALSE>>, <<TRUE>>},
      summary : {<<>>},
      tags : {<<>>},
      images : {<<>>},
      readingTime : {[kind |-> "object", minutes |-> <<3>>]} ]

\* The order of the ISO dates in use.
DateOrder(date) == IF date = "2024-05-06" THEN 2 ELSE 1

\* sortPosts of pliny/utils/contentlayer: a stable sort, latest date first.
RECURSIVE InsertPost(_, _)
InsertPost(post, sorted) ==
    IF sorted = <<>> THEN <<post>>
    ELSE IF DateOrder(post.date) >= DateOrder(Head(sorted).date) THEN <<post>> \o sorted
    ELSE <<Head(sorted)>> \o InsertPost(post, Tail(sorted))

RECURSIVE sortPosts(_)
sortPosts(allBlogs) ==
    IF allBlogs = <<>> THEN <<>> ELSE InsertPost(Head(allBlogs), sortPosts(Tail(allBlogs)))

\* Mutant of allCoreContent: drafts are kept in every environment.
allCoreContentUnfiltered(contents, nodeEnv) == contents

\* allCoreContent of pliny/utils/contentlayer: the documents without their
\* body; in a production build the documents whose draft flag is true are
\* left out, in any other environment they are kept.
allCoreContent(contents, nodeEnv) ==
    IF nodeEnv = "production"
    THEN SelectSeq(contents, LAMBDA c : c.draft # <<TRUE>>)
    ELSE contents

\* What BlogPage hands to the list layout.
BlogPage(allBlogs, nodeEnv) ==
    LET coreBlogs == allCoreContent(sortPosts(allBlogs), nodeEnv)
        posts == transformBlogsToBlogPosts(coreBlogs)
    IN  IF ~posts.ok THEN [pc |-> "blog-page-failed", allBlogs |-> allBlogs]
        ELSE [ pc |-> "blog-page",
               allBlogs |-> allBlogs,
               posts |-> posts.val,
               initialDisplayPosts |->
                   slice(posts.val, BlogPageLimit * (pageNumber - 1), BlogPageLimit * pageNumber),
               pagination |-> [ currentPage |-> pageNumber,
                                totalPages |-> Ceil(Len(posts.val), BlogPageLimit) ],
               title |-> "All Posts" ]

RenderBlogPage ==
    /\ site.pc = "blog-page-props"
    /\ site' = BlogPage(site.allBlogs, env.NODE_ENV)
    /\ UNCHANGED <<env, blog_posts, reqs, list>>

InitBlogPage ==
    /\ env \in {Configured("production"), Configured("development")}
    /\ blog_posts = DetailPosts
    /\ reqs = EmptyBag
    /\ list = IdleList
    /\ site \in {[pc |-> "blog-page-props", allBlogs |-> blogs] :
                    blogs \in SeqUpTo(PageBlogs, MaxBlogs)}

NextBlogPage == RenderBlogPage

SpecBlogPage == InitBlogPage /\ [][NextBlogPage]_vars

\* The posts the list layout receives.
HandedToLayout == Range(site.posts) \cup Range(site.initialDisplayPosts)

MaxCount == 3

TagNames == {"next-js", "guide", "seo"}

TagEntries == [tag : TagNames, count : 1 .. MaxCount]

DistinctTags(entries) ==
    \A i, j \in 1 .. Len(entries) : entries[i].tag = entries[j].tag => i = j

TagCountMappings ==
    {entries \in SeqUpTo(TagEntries, Cardinality(TagNames)) : DistinctTags(entries)}

\* tagCounts[tag]
countOf(tagCounts, tag) ==
    (CHOOSE e \in Range(tagCounts) : e.tag = tag).count

\* Object.keys(tagCounts)
tagKeys(tagCounts) == [i \in 1 .. Len(tagCounts) |-> tagCounts[i].tag]

\* Array.prototype.sort with (a, b) => tagCounts[b] - tagCounts[a]: a stable
\* sort, `a` ahead of `b` when the comparison is negative.
RECURSIVE InsertTag(_, _, _)
InsertTag(tagCounts, a, sorted) ==
    IF sorted = <<>> THEN <<a>>
    ELSE LET b == Head(sorted)
         IN  IF countOf(tagCounts, b) - countOf(tagCounts, a) <= 0
             THEN <<a>> \o sorted
             ELSE <<b>> \o InsertTag(tagCounts, a, Tail(sorted))

RECURSIVE SortTags(_, _)
SortTags(tagCounts, keys) ==
    IF keys = <<>> THEN <<>>
    ELSE InsertTag(tagCounts, Head(keys), SortTags(tagCounts, Tail(keys)))

\* Mutant of sortedTags: the keys are shown unsorted.
sortedTagsUnsorted(tagCounts) == tagKeys(tagCounts)

\* sortedTags
sortedTags(tagCounts) == SortTags(tagCounts, tagKeys(tagCounts))

RenderTags ==
    /\ site.pc = "tags-props"
    /\ site' = [site EXCEPT !.pc = "tags", !.sortedTags = sortedTags(site.tagCounts)]
    /\ UNCHANGED <<env, blog_posts, reqs, list>>

InitTags ==
    /\ env = Configured("production")
    /\ blog_posts = DetailPosts
    /\ reqs = EmptyBag
    /\ list = IdleList
    /\ site \in {[pc |-> "tags-props", tagCounts |-> tagCounts, sortedTags |-> <<>>] :
                    tagCounts \in TagCountMappings}

NextTags == RenderTags

SpecTags == InitTags /\ [][NextTags]_vars

\* C27: the tags are shown with the larger count first, and every tag of the
\* count mapping is shown exactly once and no other tag is shown.
TagsSortedByCount ==
    (site.pc = "tags") =>
        LET shown == site.sortedTags
            counts == site.tagCounts
        IN  /\ \A i, j \in 1 .. Len(shown) :
                   countOf(counts, shown[i]) > countOf(counts, shown[j]) => i < j
            /\ \A e \in Range(counts) :
                   Cardinality({i \in 1 .. Len(shown) : shown[i] = e.tag}) = 1
            /\ Len(shown) = Len(counts)

TagsSortedWitness ==
    /\ site.pc = "tags"
    /\ Len(site.tagCounts) = 3
    /\ site.tagCounts[1].count < site.tagCounts[3].count
    /\ site.tagCounts[3].count < site.tagCounts[2].count
    /\ site.sortedTags = <<site.tagCounts[2].tag, site.tagCounts[3].tag, site.tagCounts[1].tag>>

\* C28: in the full project listing over a collection that is not empty,
\* whatever enabled controls were clicked, currentPage stays within
\* 1..totalPages and the displayed slice is not empty.
CurrentPageStaysInRange ==
    (site.pc = "listing" /\ ~site.isMain /\ Len(site.items) > 0) =>
        /\ 1 <= site.currentPage
        /\ site.currentPage <= site.totalPages
        /\ site.displayed # <<>>

\* The last of three pages, reached by clicking, with a single item on it.
CurrentPageWitness ==
    /\ site.pc = "listing" /\ ~site.isMain
    /\ Len(site.items) = 5 /\ site.pageSize = 2
    /\ site.currentPage = 3 /\ site.totalPages = 3
    /\ site.nextDisabled /\ ~site.previousDisabled
    /\ Len(site.displayed) = 1

\* ---------------------------------------------------------------------------
\* From the list to the detail endpoint: the blog page asks for the list, the
\* list layout links each post with its slug and language, and the post page
\* asks the detail endpoint for what the link names.

\* The blog page calls getBlogPosts({locale, page: 1, limit: 100}).
BlogPageListArrives ==
    /\ list.pc = "idle"
    /\ \E locale \in Locales :
          list' = ListStart(env, locale, [kind |-> "int", n |-> pageNumber],
                            [kind |-> "int", n |-> BlogPageLimit])
    /\ UNCHANGED <<env, site, blog_posts, reqs>>

\* A reader follows the link /blog/${slug}?locale=${language} of a listed
\* post; the post page calls getBlogPost({locale, slug}).
FollowLink ==
    /\ list.pc = "done"
    /\ list.ret # <<>>
    /\ reqs = EmptyBag
    /\ \E post \in Range(list.ret[1].val) :
          reqs' = SetToBag({NewRequest(post.slug, post.language)})
    /\ UNCHANGED <<env, site, blog_posts, list>>

InitRoundTrip ==
    /\ env = Configured("production")
    /\ blog_posts \in ListTables
    /\ reqs = EmptyBag
    /\ list = IdleList
    /\ site = NoSite

NextRoundTrip ==
    \/ BlogPageListArrives
    \/ ListReadPosts
    \/ ListReadLookup
    \/ ListReadCount
    \/ FollowLink
    \/ \E r \in BagToSet(reqs) : ReadTranslations(r)
    \/ \E r \in BagToSet(reqs) : ReadPost(r)
    \/ \E r \in BagToSet(reqs) : UpdateViews(r)
    \/ \E r \in BagToSet(reqs) : ReadLookup(r)
    \/ \E r \in BagToSet(reqs) : ReadFiles(r)

SpecRoundTrip == InitRoundTrip /\ [][NextRoundTrip]_vars

\* The names under which a failed upstream call reaches the catch block.
DetailUpstreamCalls ==
    {"blog_posts_translations", "blog_posts", "blog_posts_tags", "tags", "blog_posts_files"}

\* The listed posts that a link with this slug and language names.
ListedAs(slug, language) ==
    {post \in Range(list.ret[1].val) : post.slug = slug /\ post.language = language}

\* C29: a detail request for the slug and language of a listed post, answered
\* without an upstream failure, returns that post, with its id and language.
RoundTripReturnsThePost ==
    \A r \in BagToSet(reqs) :
        (Answered(r) /\ ~(r.thrown \in DetailUpstreamCalls)) =>
            \A post \in ListedAs(r.slug, r.locale) :
                /\ r.resp[1].status = 200
                /\ r.resp[1].data[1].id = post.id
                /\ r.resp[1].data[1].language = post.language

=============================================================================
